---- MODULE Spec2Model ----
(***************************************************************************)
(* PhytoScann: leaf-disease severity from an uploaded photograph.          *)
(*                                                                         *)
(*   leaf_analysis.py  load_and_process_image, calculate_severity,         *)
(*                     analyze_leaf                                        *)
(*   app.py            upload_file, the POST /upload handler               *)
(*                                                                         *)
(* Two specifications share the variables below:                         *)
(*   Spec     the upload service: requests handled by concurrent threads   *)
(*            over one uploads directory;                                  *)
(*   SpecCore load_and_process_image and analyze_leaf as functions of a    *)
(*            stored file, calculate_severity as a function of two masks.  *)
(*                                                                         *)
(* A raster is a flattened grid: a sequence of pixels.  A decoded image is *)
(* given in the <<h, s, v>> coordinates that cv2.cvtColor produces at      *)
(* leaf_analysis.py:31; the codec and the colour conversion are OpenCV's   *)
(* and are not modelled beyond "these bytes decode to this raster".        *)
(***************************************************************************)
EXTENDS Integers, Sequences, FiniteSets, TLC

VARIABLES
    pc,         \* Spec: each request's position in upload_file
    upload,     \* Spec: each request's multipart form
    uploads,    \* Spec: the uploads directory
    response,   \* Spec: each request's HTTP response
    log,        \* Spec: each request's file-system and analysis events (history)
    call,       \* SpecCore: the arguments of the function under check
    ret         \* SpecCore: its outcome

vars == <<pc, upload, uploads, response, log, call, ret>>

----------------------------------------------------------------------------
(* Bounds *)

NumReq == 2         \* concurrent upload requests
MaxImgLen == 3      \* pixels of a multi-pixel image
MaxSmallMask == 3   \* length up to which every pair of 0/1 masks is tried
MaxMaskLen == 20    \* length up to which the block-shaped masks are tried

----------------------------------------------------------------------------
(* Values *)

None == [kind |-> "None"]
NoFile == [kind |-> "absent"]
EmptyBytes == [kind |-> "empty"]
GarbageBytes == [kind |-> "garbage"]
Encoded(hsv) == [kind |-> "image", hsv |-> hsv]

\* Channel samples around every threshold of the segmentation.
HueSamples == {0, 14, 15, 16, 29, 30, 31, 179, 255}
SatSamples == {0, 24, 25, 26, 49, 50, 51, 254, 255}
ValSamples == {0, 49, 50, 51, 255}
Palette == {<<h, s, v>> : h \in HueSamples, s \in SatSamples, v \in ValSamples}

White == <<0, 0, 255>>
Green == <<60, 255, 255>>
YellowBrown == <<20, 200, 200>>
PaleYellow == <<20, 25, 200>>
Edge == <<30, 50, 50>>
Thumb == {White, Green, YellowBrown, PaleYellow, Edge}

SeqsUpTo(S, n) == UNION {[1..k -> S] : k \in 1..n}

Images == {<<p>> : p \in Palette} \cup SeqsUpTo(Thumb, MaxImgLen)

----------------------------------------------------------------------------
(* numpy / OpenCV primitives used by leaf_analysis.py *)

\* a & b on unsigned 8-bit values
RECURSIVE BitAnd(_, _)
BitAnd(a, b) ==
    IF a = 0 \/ b = 0 THEN 0
    ELSE (a % 2) * (b % 2) + 2 * BitAnd(a \div 2, b \div 2)

\* np.count_nonzero
RECURSIVE CountNonzero(_)
CountNonzero(mask) ==
    IF mask = <<>> THEN 0
    ELSE (IF Head(mask) # 0 THEN 1 ELSE 0) + CountNonzero(Tail(mask))

\* cv2.inRange: 255 where every channel lies within [lower, upper], else 0
InRange(hsv, lower, upper) ==
    [i \in DOMAIN hsv |->
        IF \A c \in 1..3 : lower[c] <= hsv[i][c] /\ hsv[i][c] <= upper[c]
        THEN 255 ELSE 0]

\* cv2.imdecode: the outcomes a build of OpenCV can produce for a buffer.
\* An undecodable buffer yields None; an empty one yields None or, in builds
\* that assert on it, raises cv2.error.
Imdecode(image_data) ==
    CASE image_data.kind = "image"   -> {[kind |-> "image", hsv |-> image_data.hsv]}
      [] image_data.kind = "garbage" -> {None}
      [] image_data.kind = "empty"   ->
            {None, [kind |-> "raise", type |-> "cv2.error", msg |-> <<"!buf.empty()">>]}
      [] OTHER                       -> {None}

Raise(type, msg) == [kind |-> "raise", type |-> type, msg |-> msg]

----------------------------------------------------------------------------
(* leaf_analysis.py: load_and_process_image *)

LeafSatThreshold == 25
lower_hue_sat20 == <<15, 20, 50>>
lower_hue == <<15, 50, 50>>
upper_hue == <<30, 255, 255>>

\* saturation >= 25 in place of saturation > 25
LeafMask_ge(saturation) ==
    [i \in DOMAIN saturation |-> IF saturation[i] >= LeafSatThreshold THEN 1 ELSE 0]

\* (saturation > 25).astype(np.uint8)
LeafMask(saturation) ==
    [i \in DOMAIN saturation |-> IF saturation[i] > LeafSatThreshold THEN 1 ELSE 0]

\* the colour-range mask, before the leaf mask is applied
RangeMask(hsv) == InRange(hsv, lower_hue, upper_hue)

\* infected_mask & leaf_mask, elementwise
ApplyLeafMask(infected_mask, leaf_mask) ==
    [i \in DOMAIN infected_mask |-> BitAnd(infected_mask[i], leaf_mask[i])]

\* the two masks returned in each other's place
Segment_swapped(hsv) ==
    LET saturation == [i \in DOMAIN hsv |-> hsv[i][2]]
        leaf_mask == LeafMask(saturation)
        infected_mask == ApplyLeafMask(RangeMask(hsv), leaf_mask)
    IN  [kind |-> "return", image |-> hsv,
         leaf_mask |-> infected_mask, infected_mask |-> leaf_mask]

\* lines 32-44: the segmentation of a decoded image and the returned tuple
Segment(hsv) ==
    LET saturation == [i \in DOMAIN hsv |-> hsv[i][2]]
        leaf_mask == LeafMask(saturation)
        infected_mask == ApplyLeafMask(RangeMask(hsv), leaf_mask)
    IN  [kind |-> "return", image |-> hsv,
         leaf_mask |-> leaf_mask, infected_mask |-> infected_mask]

\* the wrapper losing its cause
Wrap_generic(cause) == Raise("Exception", <<"Error processing image">>)

\* except Exception as e: raise Exception(f"Error processing image: {str(e)}")
Wrap(cause) == Raise("Exception", <<"Error processing image: ">> \o cause.msg)

\* stored: what is at image_path (a file's bytes, or NoFile);
\* dec: the outcome of cv2.imdecode on those bytes.
LoadAndProcessImage(image_path, stored, dec) ==
    IF stored = NoFile
    THEN Wrap(Raise("FileNotFoundError",
                    <<"[Errno 2] No such file or directory: ", image_path>>))
    ELSE IF dec.kind = "raise" THEN Wrap(dec)
    ELSE IF dec.kind = "None"
    THEN Wrap(Raise("ValueError", <<"Unable to load image from: ", image_path>>))
    ELSE Segment(dec.hsv)

----------------------------------------------------------------------------
(* leaf_analysis.py: calculate_severity *)

\* A percentage is the exact quotient num/den.  Python evaluates
\* (infected_pixels / total_leaf_pixels) * 100 in binary64; for pixel counts
\* below 2^31 a quotient that differs from 10 or 30 differs by more than
\* 10^-9, far above the rounding error, and 0.1 * 100 and 0.3 * 100 evaluate
\* to 10.0 and 30.0, so both comparisons agree with the exact ones.
Less(p, n) == p.num < n * p.den
LessEq(p, n) == p.num <= n * p.den

ModerateFrom == 10
HighFrom == 30

\* the ratio multiplied by 100 twice
Percentage_twice(infected_pixels, total_leaf_pixels) ==
    [num |-> infected_pixels * 100 * 100, den |-> total_leaf_pixels]

\* (infected_pixels / total_leaf_pixels) * 100
Percentage(infected_pixels, total_leaf_pixels) ==
    [num |-> infected_pixels * 100, den |-> total_leaf_pixels]

\* <= in place of < at both thresholds
SeverityLevel_le(severity_percentage) ==
    IF LessEq(severity_percentage, ModerateFrom) THEN "Low"
    ELSE IF LessEq(severity_percentage, HighFrom) THEN "Moderate"
    ELSE "High"

\* lines 71-76
SeverityLevel(severity_percentage) ==
    IF Less(severity_percentage, ModerateFrom) THEN "Low"
    ELSE IF Less(severity_percentage, HighFrom) THEN "Moderate"
    ELSE "High"

\* the guard never taken
LeafIsEmpty_never(total_leaf_pixels) == FALSE

\* if total_leaf_pixels == 0
LeafIsEmpty(total_leaf_pixels) == total_leaf_pixels = 0

\* divisions: the divisors of the divisions performed (history)
CalculateSeverity(leaf_mask, infected_mask) ==
    LET total_leaf_pixels == CountNonzero(leaf_mask)
        infected_pixels == CountNonzero(infected_mask)
        severity_percentage == Percentage(infected_pixels, total_leaf_pixels)
    IN  IF LeafIsEmpty(total_leaf_pixels)
        THEN [kind |-> "raise", type |-> "ValueError",
              msg |-> <<"The leaf mask is empty, unable to calculate severity.">>,
              divisions |-> <<>>]
        ELSE IF total_leaf_pixels = 0    \* Python's int / 0
        THEN [kind |-> "raise", type |-> "ZeroDivisionError",
              msg |-> <<"division by zero">>,
              divisions |-> <<total_leaf_pixels>>]
        ELSE [kind |-> "return",
              percentage |-> severity_percentage,
              level |-> SeverityLevel(severity_percentage),
              divisions |-> <<total_leaf_pixels>>]

----------------------------------------------------------------------------
(* leaf_analysis.py: analyze_leaf *)

\* out: what analyze_leaf returns or raises; calls: the functions it entered
AnalyzeLeaf(filepath, stored, dec) ==
    LET seg == LoadAndProcessImage(filepath, stored, dec)
    IN  IF seg.kind = "raise"
        THEN [out |-> seg, calls |-> <<"load_and_process_image">>]
        ELSE [out |-> CalculateSeverity(seg.leaf_mask, seg.infected_mask),
              calls |-> <<"load_and_process_image", "calculate_severity">>]

----------------------------------------------------------------------------
(* app.py: upload_file *)
(*                                                                         *)
(* Flask serves each request on its own thread, so handlers interleave at  *)
(* their accesses to the uploads directory: one step takes a request from  *)
(* its arrival through file.save (or to its 400 response), a second step   *)
(* reads the saved path, analyses it and answers.  Filenames are plain     *)
(* names and writes to the directory succeed.                              *)

Requests == 1..NumReq
Filenames == {"", "a.png", "b.png"}

\* os.path.join
Join(dir, name) == <<dir, name>>

UploadFiles ==
    {EmptyBytes, GarbageBytes} \cup
    {Encoded(<<p>>) : p \in {White, Green, YellowBrown}} \cup
    {Encoded(<<Green, YellowBrown, Green>>)}

\* request.files: with no 'file' part, or a 'file' part of a name and bytes
Forms ==
    {[has_file |-> FALSE, filename |-> "", data |-> EmptyBytes]} \cup
    {[has_file |-> TRUE, filename |-> "", data |-> EmptyBytes]} \cup
    {[has_file |-> TRUE, filename |-> f, data |-> d] :
        f \in Filenames \ {""}, d \in UploadFiles}

NoForm == [has_file |-> FALSE, filename |-> "", data |-> NoFile]

\* jsonify(...), status
Response(status, body) == [kind |-> "response", status |-> status, body |-> body]

\* f"{x:.2f}": x in hundredths, rounded to nearest, ties to even
Hundredths(p) ==
    LET n == p.num * 100
        q == n \div p.den
        r == n % p.den
    IN  IF 2 * r > p.den \/ (2 * r = p.den /\ q % 2 = 1) THEN q + 1 ELSE q

\* f"{severity_data['percentage']:.2f}% ({severity_data['level']})"
FormatSeverity(severity_data) ==
    <<Hundredths(severity_data.percentage), "% (", severity_data.level, ")">>

\* only the missing part is rejected
Rejection_partonly(form) ==
    IF ~form.has_file THEN Response(400, [error |-> "No file part"])
    ELSE None

\* lines 13-18: the 400 response, or None when the form passes
Rejection(form) ==
    IF ~form.has_file THEN Response(400, [error |-> "No file part"])
    ELSE IF form.filename = "" THEN Response(400, [error |-> "No selected file"])
    ELSE None

\* an exception answered with a default severity
AnalysisResponse_fallback(filename, out) ==
    IF out.kind = "return"
    THEN Response(200, [severity |-> FormatSeverity(out),
                        image_url |-> <<"/uploads/", filename>>])
    ELSE Response(200, [severity |-> <<0, "% (", "Low", ")">>,
                        image_url |-> <<"/uploads/", filename>>,
                        error |-> out.msg])

\* lines 24-31: the response to what analyze_leaf returned or raised
AnalysisResponse(filename, out) ==
    IF out.kind = "return"
    THEN Response(200, [severity |-> FormatSeverity(out),
                        image_url |-> <<"/uploads/", filename>>])
    ELSE Response(500, [error |-> out.msg])

InitServer ==
    /\ pc = [r \in Requests |-> "idle"]
    /\ upload = [r \in Requests |-> NoForm]
    /\ uploads = [exists |-> FALSE,
                  files |-> [p \in {Join("uploads", f) : f \in Filenames} |-> NoFile]]
    /\ response = [r \in Requests |-> <<>>]
    /\ log = [r \in Requests |-> <<>>]

Pending == [kind |-> "pending"]
Idle == [kind |-> "idle"]

\* lines 13-18: a request arrives and is rejected
PostRejected(r, form) ==
    /\ pc[r] = "idle"
    /\ Rejection(form).kind # "None"
    /\ upload' = [upload EXCEPT ![r] = form]
    /\ response' = [response EXCEPT ![r] = Append(@, Rejection(form))]
    /\ pc' = [pc EXCEPT ![r] = "done"]
    /\ UNCHANGED <<uploads, log, call, ret>>

\* lines 13-22: a request arrives, passes both checks and its file is saved
PostSaved(r, form) ==
    /\ pc[r] = "idle"
    /\ Rejection(form).kind = "None"
    /\ LET filepath == Join("uploads", form.filename)
       IN  /\ uploads' = [exists |-> TRUE,
                          files |-> [uploads.files EXCEPT ![filepath] = form.data]]
           /\ log' = [log EXCEPT ![r] =
                        Append(@, [op |-> "save", path |-> filepath, data |-> form.data])]
    /\ upload' = [upload EXCEPT ![r] = form]
    /\ pc' = [pc EXCEPT ![r] = "saved"]
    /\ UNCHANGED <<response, call, ret>>

\* lines 24-31: the saved file is analysed and the request answered
Analyze(r) ==
    /\ pc[r] = "saved"
    /\ LET filepath == Join("uploads", upload[r].filename)
           stored == uploads.files[filepath]
       IN  \E dec \in Imdecode(stored) :
             LET a == AnalyzeLeaf(filepath, stored, dec)
             IN  /\ log' = [log EXCEPT ![r] =
                              Append(@, [op |-> "analyze_leaf", path |-> filepath,
                                         data |-> stored, out |-> a.out,
                                         calls |-> a.calls])]
                 /\ response' = [response EXCEPT ![r] =
                                   Append(@, AnalysisResponse(upload[r].filename, a.out))]
    /\ pc' = [pc EXCEPT ![r] = "done"]
    /\ UNCHANGED <<upload, uploads, call, ret>>

Init ==
    /\ InitServer
    /\ call = Idle
    /\ ret = Idle

Next ==
    \E r \in Requests :
        \/ \E form \in Forms : PostRejected(r, form)
        \/ \E form \in Forms : PostSaved(r, form)
        \/ Analyze(r)

Spec == Init /\ [][Next]_vars

----------------------------------------------------------------------------
(* SpecCore: the three functions of leaf_analysis.py, each applied once to *)
(* arguments drawn from bounded sets                                       *)

StoredFiles == {NoFile, EmptyBytes, GarbageBytes} \cup {Encoded(i) : i \in Images}

FileCalls ==
    {[on |-> "file", image_path |-> Join("uploads", f), stored |-> d] :
        f \in {"a.png"}, d \in StoredFiles}

Prefix(n, k) == [i \in 1..n |-> IF i <= k THEN 1 ELSE 0]
Suffix(n, k) == [i \in 1..n |-> IF i > n - k THEN 1 ELSE 0]

\* Every pair of masks up to MaxSmallMask pixels, and up to MaxMaskLen pixels
\* the pairs made of a leading block of leaf pixels and a leading or trailing
\* block of infected pixels.
MaskPairs ==
    UNION {[1..n -> {0, 1}] \X [1..n -> {0, 1, 255}] : n \in 0..MaxSmallMask}
    \cup
    UNION {{<<Prefix(t[1], t[2]), Prefix(t[1], t[3])>>,
            <<Prefix(t[1], t[2]), Suffix(t[1], t[3])>>} :
              t \in {u \in (1..MaxMaskLen) \X (0..MaxMaskLen) \X (0..MaxMaskLen) :
                       u[2] <= u[1] /\ u[3] <= u[1]}}

MaskCalls ==
    {[on |-> "masks", leaf_mask |-> m[1], infected_mask |-> m[2]] : m \in MaskPairs}

InitCore ==
    /\ InitServer
    /\ call \in FileCalls \cup MaskCalls
    /\ ret = Pending

CallLoadAndProcessImage ==
    /\ ret.kind = "pending"
    /\ call.on = "file"
    /\ \E dec \in Imdecode(call.stored) :
          ret' = [kind |-> "done", fn |-> "load_and_process_image",
                  out |-> LoadAndProcessImage(call.image_path, call.stored, dec)]
    /\ UNCHANGED <<pc, upload, uploads, response, log, call>>

CallAnalyzeLeaf ==
    /\ ret.kind = "pending"
    /\ call.on = "file"
    /\ \E dec \in Imdecode(call.stored) :
          LET a == AnalyzeLeaf(call.image_path, call.stored, dec)
          IN  ret' = [kind |-> "done", fn |-> "analyze_leaf",
                      out |-> a.out, calls |-> a.calls]
    /\ UNCHANGED <<pc, upload, uploads, response, log, call>>

CallCalculateSeverity ==
    /\ ret.kind = "pending"
    /\ call.on = "masks"
    /\ ret' = [kind |-> "done", fn |-> "calculate_severity",
               out |-> CalculateSeverity(call.leaf_mask, call.infected_mask)]
    /\ UNCHANGED <<pc, upload, uploads, response, log, call>>

NextCore == CallLoadAndProcessImage \/ CallAnalyzeLeaf \/ CallCalculateSeverity

SpecCore == InitCore /\ [][NextCore]_vars

----------------------------------------------------------------------------
(* Properties of the core functions, checked under SpecCore *)

Returned(fn) == ret.kind = "done" /\ ret.fn = fn /\ ret.out.kind = "return"
NonZero(mask) == {i \in DOMAIN mask : mask[i] # 0}
Undecodable == call.on = "file" /\ call.stored.kind \in {"absent", "empty", "garbage"}

\* C1: whenever load_and_process_image returns, the two masks have the
\* dimensions of the image and every non-zero pixel of infected_mask is
\* non-zero in leaf_mask.
C1_InfectedSubsetOfLeaf ==
    Returned("load_and_process_image") =>
        /\ DOMAIN ret.out.leaf_mask = DOMAIN call.stored.hsv
        /\ DOMAIN ret.out.infected_mask = DOMAIN call.stored.hsv
        /\ NonZero(ret.out.infected_mask) \subseteq NonZero(ret.out.leaf_mask)

\* an image of three pixels: one infected, one healthy leaf, one background
C1_Witness ==
    /\ Returned("load_and_process_image")
    /\ Len(call.stored.hsv) = 3
    /\ NonZero(ret.out.infected_mask) # {}
    /\ NonZero(ret.out.leaf_mask) \ NonZero(ret.out.infected_mask) # {}
    /\ NonZero(ret.out.leaf_mask) # DOMAIN ret.out.leaf_mask

\* C8: a pixel <<h, s, v>> is leaf exactly when s > 25, and infected exactly
\* when 15 <= h <= 30, 50 <= s <= 255, 50 <= v <= 255 and it is leaf.
C8_Thresholds ==
    Returned("load_and_process_image") =>
        \A i \in DOMAIN call.stored.hsv :
            LET h == call.stored.hsv[i][1]
                s == call.stored.hsv[i][2]
                v == call.stored.hsv[i][3]
            IN  /\ (ret.out.leaf_mask[i] # 0) <=> (s > 25)
                /\ (ret.out.infected_mask[i] # 0) <=>
                        /\ 15 <= h /\ h <= 30
                        /\ 50 <= s /\ s <= 255
                        /\ 50 <= v /\ v <= 255
                        /\ ret.out.leaf_mask[i] # 0

\* a pixel of saturation 25 left out of the leaf beside a pixel on the
\* inclusive bounds h = 30, s = 50, v = 50 marked infected
C8_Witness ==
    /\ Returned("load_and_process_image")
    /\ \E i, j \in DOMAIN call.stored.hsv :
          /\ call.stored.hsv[i] = <<20, 25, 200>> /\ ret.out.leaf_mask[i] = 0
          /\ call.stored.hsv[j] = <<30, 50, 50>> /\ ret.out.infected_mask[j] # 0

\* C9: every pixel of the colour-range mask is a leaf pixel, so the mask
\* returned after the intersection has the non-zero pixels of the
\* colour-range mask.
C9_IntersectionRemovesNothing ==
    Returned("load_and_process_image") =>
        /\ NonZero(RangeMask(call.stored.hsv)) \subseteq NonZero(ret.out.leaf_mask)
        /\ NonZero(ret.out.infected_mask) = NonZero(RangeMask(call.stored.hsv))

\* an image with a pixel in the colour range and a pixel outside the leaf,
\* whose range mask holds 255 where the returned mask holds 1
C9_Witness ==
    /\ Returned("load_and_process_image")
    /\ \E i \in DOMAIN call.stored.hsv :
          RangeMask(call.stored.hsv)[i] = 255 /\ ret.out.infected_mask[i] = 1
    /\ \E j \in DOMAIN call.stored.hsv :
          call.stored.hsv[j] = <<20, 25, 200>> /\ ret.out.leaf_mask[j] = 0

\* the pixel counts of the masks passed to calculate_severity
LeafCount == CountNonzero(call.leaf_mask)
InfectedCount == CountNonzero(call.infected_mask)

\* C2: the returned level is "Low" when infected/total_leaf is below 10%,
\* "Moderate" from exactly 10% to below 30%, "High" from exactly 30%.
C2_HalfOpenIntervals ==
    Returned("calculate_severity") =>
        /\ (100 * InfectedCount < 10 * LeafCount) => ret.out.level = "Low"
        /\ (100 * InfectedCount >= 10 * LeafCount /\ 100 * InfectedCount < 30 * LeafCount)
              => ret.out.level = "Moderate"
        /\ (100 * InfectedCount >= 30 * LeafCount) => ret.out.level = "High"

\* a ratio of exactly 10% (at least 10 leaf pixels) labelled "Moderate"
C2_Witness ==
    /\ Returned("calculate_severity")
    /\ InfectedCount > 0
    /\ 100 * InfectedCount = 10 * LeafCount
    /\ ret.out.level = "Moderate"

\* C3 as stated: with at least one leaf pixel, whatever infected mask of the
\* same dimensions is passed, the percentage lies in [0, 100] and the level
\* is the one the interval mapping gives for it.
C3_AnyInfectedMask ==
    (ret.kind = "done" /\ ret.fn = "calculate_severity" /\ LeafCount > 0) =>
        /\ ret.out.kind = "return"
        /\ ret.out.percentage.num >= 0
        /\ ret.out.percentage.num <= 100 * ret.out.percentage.den
        /\ ret.out.level \in {"Low", "Moderate", "High"}

\* C3 amended: with at least one leaf pixel and an infected mask whose
\* non-zero pixels are all non-zero in the leaf mask, calculate_severity
\* returns 100 * infected / total_leaf, which lies in [0, 100], and the
\* level the interval mapping gives for that percentage.
C3_SubsetInfectedMask ==
    (/\ ret.kind = "done" /\ ret.fn = "calculate_severity"
     /\ LeafCount > 0
     /\ NonZero(call.infected_mask) \subseteq NonZero(call.leaf_mask)) =>
        /\ ret.out.kind = "return"
        /\ ret.out.percentage.den > 0
        /\ ret.out.percentage.num * LeafCount
              = 100 * InfectedCount * ret.out.percentage.den
        /\ ret.out.percentage.num >= 0
        /\ ret.out.percentage.num <= 100 * ret.out.percentage.den
        /\ ret.out.level \in {"Low", "Moderate", "High"}
        /\ (ret.out.level = "Low") <=>
              (ret.out.percentage.num < 10 * ret.out.percentage.den)
        /\ (ret.out.level = "High") <=>
              (ret.out.percentage.num >= 30 * ret.out.percentage.den)

\* a leaf wholly infected: exactly 100%, "High"
C3_Witness ==
    /\ Returned("calculate_severity")
    /\ LeafCount > 1
    /\ NonZero(call.infected_mask) = NonZero(call.leaf_mask)
    /\ NonZero(call.leaf_mask) # DOMAIN call.leaf_mask
    /\ ret.out.percentage.num = 100 * ret.out.percentage.den
    /\ ret.out.level = "High"

\* the image as decoded has no pixel of saturation above 25
NoLeafPixel ==
    /\ call.on = "file"
    /\ call.stored.kind = "image"
    /\ \A i \in DOMAIN call.stored.hsv : call.stored.hsv[i][2] <= 25

IsEmptyLeafError(out) ==
    /\ out.kind = "raise"
    /\ out.type = "ValueError"
    /\ out.msg = <<"The leaf mask is empty, unable to calculate severity.">>
    /\ out.divisions = <<>>
    /\ {"percentage", "level"} \cap DOMAIN out = {}

\* C4: on a leaf mask without a non-zero pixel calculate_severity raises the
\* empty-leaf error, having divided nothing and returning neither percentage
\* nor level; analyze_leaf on an image without a pixel of saturation above
\* 25 ends with that same error.
C4_EmptyLeafRaises ==
    /\ (ret.kind = "done" /\ ret.fn = "calculate_severity" /\ LeafCount = 0)
          => IsEmptyLeafError(ret.out)
    /\ (ret.kind = "done" /\ ret.fn = "analyze_leaf" /\ NoLeafPixel)
          => /\ IsEmptyLeafError(ret.out)
             /\ ret.calls = <<"load_and_process_image", "calculate_severity">>

\* analyze_leaf on an image whose three pixels are all background
C4_Witness ==
    /\ ret.kind = "done" /\ ret.fn = "analyze_leaf"
    /\ NoLeafPixel
    /\ Len(call.stored.hsv) = 3
    /\ ret.out.kind = "raise"
    /\ ret.out.type = "ValueError"

\* the message of what open or cv2.imdecode raised, or of the ValueError
\* raised for an image that is None
CauseMessages ==
    {<<"[Errno 2] No such file or directory: ", call.image_path>>,
     <<"!buf.empty()">>,
     <<"Unable to load image from: ", call.image_path>>}

\* C5: on bytes that are missing, empty or not an image,
\* load_and_process_image raises one Exception whose message is the prefix
\* followed by the cause's message, and returns no image and no mask;
\* analyze_leaf raises the same and does not enter calculate_severity.
C5_DecodeFailureWrapped ==
    (ret.kind = "done" /\ Undecodable) =>
        /\ ret.out.kind = "raise"
        /\ ret.out.type = "Exception"
        /\ Head(ret.out.msg) = "Error processing image: "
        /\ Tail(ret.out.msg) \in CauseMessages
        /\ {"image", "leaf_mask", "infected_mask"} \cap DOMAIN ret.out = {}
        /\ ret.fn = "analyze_leaf" => ret.calls = <<"load_and_process_image">>

\* analyze_leaf on bytes that are not an image
C5_Witness ==
    /\ ret.kind = "done" /\ ret.fn = "analyze_leaf"
    /\ call.stored.kind = "garbage"
    /\ ret.out.msg = <<"Error processing image: ", "Unable to load image from: ",
                       call.image_path>>

----------------------------------------------------------------------------
(* Properties of the upload service, checked under Spec *)

Analyses(r) == {k \in DOMAIN log[r] : log[r][k].op = "analyze_leaf"}
Saves(r) == {k \in DOMAIN log[r] : log[r][k].op = "save"}
Invalid(r) == ~upload[r].has_file \/ upload[r].filename = ""

\* C6: two requests that have both saved and not yet analysed never hold the
\* same path, and every analysis reads the bytes its own request uploaded.
C6_CollisionFreeNaming ==
    /\ \A r1, r2 \in Requests :
          (r1 # r2 /\ pc[r1] = "saved" /\ pc[r2] = "saved")
              => log[r1][1].path # log[r2][1].path
    /\ \A r \in Requests : \A k \in Analyses(r) :
          log[r][k].data = upload[r].data

\* the enabling condition of Analyze(r): the saved path is there to be read
\* and decoding it has an outcome
CanAnalyze(r) ==
    /\ pc[r] = "saved"
    /\ Join("uploads", upload[r].filename) \in DOMAIN uploads.files
    /\ uploads.files[Join("uploads", upload[r].filename)] # NoFile
    /\ Imdecode(uploads.files[Join("uploads", upload[r].filename)]) # {}

LogInOrder(r) ==
    /\ \A k \in Saves(r) : k = 1 /\ ~Invalid(r)
    /\ \A k \in Analyses(r) :
          k = 2 /\ log[r][1].op = "save" /\ log[r][1].path = log[r][2].path
    /\ (pc[r] # "idle" /\ Invalid(r)) =>
          /\ log[r] = <<>>
          /\ pc[r] = "done"
          /\ response[r][1].status = 400
    /\ (response[r] # <<>> /\ response[r][1].status = 400) => log[r] = <<>>

\* C10: a request rejected with 400 changes neither the uploads directory nor
\* any log, and a request with no file part or an empty filename neither
\* saves nor analyses; an analysis comes only after the same request's save.
C10_RejectedLeavesNoTrace ==
    /\ [](\A r \in Requests : LogInOrder(r))
    /\ [][\A r \in Requests :
            (pc[r] = "idle" /\ pc'[r] = "done") =>
                (uploads' = uploads /\ log' = log)]_vars

\* a request rejected for its empty filename after another request's save
\* and analysis, the directory holding only that other request's file
C10_Witness ==
    \E r1, r2 \in Requests :
        /\ pc[r1] = "done" /\ upload[r1].has_file /\ upload[r1].filename = ""
        /\ response[r1][1].status = 400 /\ log[r1] = <<>>
        /\ pc[r2] = "done" /\ Len(log[r2]) = 2
        /\ uploads.exists
        /\ uploads.files[Join("uploads", "")] = NoFile

====
